---- MODULE Spec2Model ----
(***************************************************************************)
(* Change detection and regeneration pipeline of figma-docs: the Watch     *)
(* Registry, the Change Poller and the check_file / check_all_files        *)
(* coroutines of FigmaChangeDetector, with the decision rule of            *)
(* FigmaService.check_file_changed.  One action is one run of a coroutine  *)
(* from a suspension point (an await that really suspends: the metadata    *)
(* fetch, an awaited callback) to the next.                                *)
(***************************************************************************)
EXTENDS Integers, Sequences, FiniteSets, TLC

\* ------------------------------------------------------------------ bounds
MaxVersion == 2      \* remote version ids are 1..MaxVersion
MaxTime == 1         \* remote lastModified timestamps are 0..MaxTime, all files' edits counted
MaxNames == 1        \* display names are 1..MaxNames
MaxReq == 1          \* manual check requests in flight at once
MaxCallbacks == 3    \* registered change callbacks
MaxEntries == 3      \* slots of the dict's entry table before it is compacted
MaxRequests == 3     \* requests and timer firings after startup
MaxGen == 1          \* generate_from_figma coroutines in flight at once
MaxDocs == 2         \* Documentation objects created
MaxLines == 4        \* lines of a markdown text given to the section parser
MaxNameLen == 3      \* characters of a source name given to the slug derivation
MaxFiles == 3        \* *_meta.json paths in the output directory given to the listing

\* ------------------------------------------------------------------ values
None == -1           \* Python None of an Optional field
EmptyVersion == 0    \* the "" that data.get("version", "") yields
Versions == 1..MaxVersion
Times == 0..MaxTime
Keys == {"k1", "k2"}
NoKey == "-"         \* a deleted slot of the entry table; no key held
Names == 1..MaxNames
NoName == 0
Earlier == 0         \* a datetime.now() that was read before time last passed
Now == 1             \* a datetime.now() that was read since time last passed
TimerJob == 0        \* the scheduler's job "figma_change_detection"
Tasks == 0..MaxReq   \* the job and the manual requests
ObjIds == 1..(Cardinality(Keys) + MaxReq + 2)
NoObj == 0
CallbackKinds == {"regen", "hook"}
Outcomes == {"ok", "noversion", "fail"}   \* of a metadata request
GenSlots == 1..MaxGen

VARIABLES
  entries,       \* _watched_files: the dict's entry table, keys in insertion order
  ref,           \* _watched_files: key -> the WatchedFile object it maps to
  heap,          \* the WatchedFile objects
  callbacks,     \* _change_callbacks
  is_running,    \* _is_running
  scheduler,     \* _scheduler: None or the scheduler object (its number)
  live,          \* started schedulers that were not shut down
  remote,        \* the design tool's file metadata, per file key
  tasks,         \* the running coroutines: the poll job and the manual requests
  phase,         \* "startup" until the lifespan handler has run, then "serving"
  hist,          \* history: what the last operations did and returned
  api_token,     \* settings.figma.api_token is set (non-empty)
  file_names,    \* the design tool's name of each file
  disk,          \* output_dir: the artifacts, per sanitized name
  gens,          \* the running generate_from_figma coroutines
  doc_ids,       \* Documentation objects created so far (uuid4 ids issued)
  sent,          \* the request last issued to the design tool's API
  parse,         \* one run of the section parser: its input and its result
  slug,          \* one run of the slug derivation: its input and its results
  listing        \* one run of list_documentation on a directory: input and result

docVars ==
  <<api_token, file_names, disk, gens, doc_ids, sent, parse, slug, listing>>

vars == <<entries, ref, heap, callbacks, is_running, scheduler, live, remote,
          tasks, phase, hist, api_token, file_names, disk, gens, doc_ids, sent,
          parse, slug, listing>>

\* ----------------------------------------------------------- WatchedFile
\* WatchedFile(file_key=file_key, name=name): the other fields at their defaults.
NewWatchedFile(file_key, name) ==
  [file_key |-> file_key, name |-> name, last_version |-> None,
   last_modified |-> None, last_checked |-> None, doc_generated |-> FALSE]

\* A heap cell that holds no object.
FreeCell == NewWatchedFile(NoKey, NoName)

NoEvent ==
  [file_key |-> NoKey, file_name |-> NoName, old_version |-> None,
   new_version |-> None, changed_at |-> None]

\* The event as it would be were it built after the new version is stored.
FileChangeEventAfterStore(watched, new_version, new_modified) ==
  [file_key |-> watched.file_key, file_name |-> watched.name,
   old_version |-> new_version, new_version |-> new_version,
   changed_at |-> new_modified]

\* FileChangeEvent(...) as check_file builds it; new_modified is never None here,
\* so "new_modified or datetime.now()" is new_modified.
FileChangeEvent(watched, new_version, new_modified) ==
  [file_key |-> watched.file_key, file_name |-> watched.name,
   old_version |-> watched.last_version, new_version |-> new_version,
   changed_at |-> new_modified]

\* ------------------------------------------------------------- the dict
Watched == {k \in Keys : ref[k] # NoObj}

\* len(self._watched_files)
Used(r) == Cardinality({k \in Keys : r[k] # NoObj})

RECURSIVE Compact(_)
Compact(es) ==
  IF es = <<>> THEN <<>>
  ELSE IF Head(es) = NoKey THEN Compact(Tail(es))
  ELSE <<Head(es)>> \o Compact(Tail(es))

\* get_watched_files(): list(self._watched_files.values()), as file keys
ListKeys(es) == Compact(es)

\* A registry that kept a list: every add takes a new slot.
InsertKeyAppends(es, file_key) ==
  IF Len(es) < MaxEntries THEN Append(es, file_key)
  ELSE Append(Compact(es), file_key)

\* The entry table after self._watched_files[file_key] = ...: an existing key
\* keeps its slot, a new key takes the next slot; a full table is rebuilt
\* without its deleted slots first.
InsertKey(es, file_key) ==
  IF \E i \in 1..Len(es) : es[i] = file_key THEN es
  ELSE IF Len(es) < MaxEntries THEN Append(es, file_key)
  ELSE Append(Compact(es), file_key)

\* The entry table after del self._watched_files[file_key]: the slot stays, empty.
DeleteKey(es, file_key) ==
  [i \in 1..Len(es) |-> IF es[i] = file_key THEN NoKey ELSE es[i]]

\* Objects some coroutine or the dict still refers to.
Referenced(r, ts) ==
  {r[k] : k \in Keys} \cup {ts[t].obj : t \in Tasks}

\* Unreferenced objects are collected.
Collect(h, r, ts) ==
  [o \in ObjIds |-> IF o \in Referenced(r, ts) THEN h[o] ELSE FreeCell]

FreshObj(r, ts) == CHOOSE o \in ObjIds : o \notin Referenced(r, ts)

\* ------------------------------------------------------- the coroutines
IdleTask ==
  [pc |-> "idle", kind |-> "none", key |-> NoKey, obj |-> NoObj,
   kv |-> None, km |-> None, ev |-> NoEvent, cbi |-> 0,
   it_pos |-> 0, it_used |-> 0, it_len |-> 0, events |-> <<>>,
   \* history of the coroutine, read by no action:
   got |-> None,        \* the version its last metadata request returned
   checked |-> {},      \* the keys it has run check_file on
   failed |-> {},       \* the keys whose metadata request failed
   made |-> <<>>,       \* the events it has created
   touched |-> FALSE,   \* a key was added or removed while it was suspended
   called |-> <<>>,     \* the callbacks called for its last event, by position
   raised |-> 0]        \* the first of them that raised (0: none)

\* Python truth of an Optional[str]: neither None nor "".
Truthy(v) == v # None /\ v # EmptyVersion

\* The decision with ">=" for ">" in the comparison of the timestamps.
HasChangedNotStrict(last_known_version, last_known_modified, current_version, current_modified) ==
  IF Truthy(last_known_version) /\ current_version # last_known_version THEN TRUE
  ELSE IF last_known_modified # None /\ current_modified >= last_known_modified THEN TRUE
  ELSE IF ~Truthy(last_known_version) /\ last_known_modified = None THEN TRUE
  ELSE FALSE

\* The decision of check_file_changed, from the arguments of the call and the
\* version and timestamp of the response.
HasChanged(last_known_version, last_known_modified, current_version, current_modified) ==
  IF Truthy(last_known_version) /\ current_version # last_known_version THEN TRUE
  ELSE IF last_known_modified # None /\ current_modified > last_known_modified THEN TRUE
  ELSE IF ~Truthy(last_known_version) /\ last_known_modified = None THEN TRUE
  ELSE FALSE

\* check_file_changed: (has_changed, new_version, new_modified); any exception
\* of the request or of reading the response gives (False, None, None).
CheckFileChanged(outcome, last_known_version, last_known_modified, meta) ==
  IF outcome = "fail"
  THEN [changed |-> FALSE, version |-> None, modified |-> None]
  ELSE LET current_version == IF outcome = "noversion" THEN EmptyVersion ELSE meta.version
       IN [changed |-> HasChanged(last_known_version, last_known_modified,
                                  current_version, meta.modified),
           version |-> current_version, modified |-> meta.modified]

\* check_file up to its await of check_file_changed: the entry is looked up and
\* its stored version and timestamp are passed as the arguments of the call.
BeginCheck(task, file_key, r, h) ==
  [task EXCEPT !.pc = "fetch", !.key = file_key, !.obj = r[file_key],
               !.kv = h[r[file_key]].last_version,
               !.km = h[r[file_key]].last_modified,
               !.checked = @ \cup {file_key}]

\* The coroutine has returned ("done") or raised ("error"): its locals are gone,
\* what it returned stays.
Ended(task, how) ==
  [task EXCEPT !.pc = how, !.obj = NoObj, !.kv = None, !.km = None, !.cbi = 0,
               !.it_pos = 0, !.it_used = 0, !.it_len = 0]

\* First slot at or after position i that holds a key (Len(es) + 1: none).
RECURSIVE NextSlot(_, _)
NextSlot(es, i) ==
  IF i > Len(es) THEN Len(es) + 1
  ELSE IF es[i] # NoKey THEN i
  ELSE NextSlot(es, i + 1)

\* The loop of a check_all_files that a failed request ends with its exception.
PassAdvanceAbortsOnFailure(task, es, r, h) ==
  LET i == NextSlot(es, task.it_pos) IN
  IF task.failed # {} THEN Ended(task, "error")
  ELSE IF task.it_used # Used(r) THEN Ended(task, "error")
  ELSE IF i > Len(es) THEN Ended(task, "done")
  ELSE IF task.it_len = 0 THEN Ended(task, "error")
  ELSE BeginCheck([task EXCEPT !.it_pos = i + 1, !.it_len = @ - 1], es[i], r, h)

\* One turn of "for file_key in self._watched_files": the dict iterator raises
\* RuntimeError when the dict's size differs from the size at the loop's start
\* (or when it meets more keys than it set out with), ends after the last slot,
\* and otherwise check_file runs on the next key up to its metadata request.
PassAdvance(task, es, r, h) ==
  LET i == NextSlot(es, task.it_pos) IN
  IF task.it_used # Used(r) THEN Ended(task, "error")
  ELSE IF i > Len(es) THEN Ended(task, "done")
  ELSE IF task.it_len = 0 THEN Ended(task, "error")
  ELSE BeginCheck([task EXCEPT !.it_pos = i + 1, !.it_len = @ - 1], es[i], r, h)

\* check_file returns `event` (NoEvent: None) to its caller: the manual check's
\* route answers; check_all_files appends a real event and goes on with its loop.
ReturnFromCheck(task, event, es, r, h) ==
  IF task.kind = "check"
  THEN Ended([task EXCEPT !.ev = event], "done")
  ELSE PassAdvance([task EXCEPT !.obj = NoObj, !.ev = event,
                                !.events = IF event # NoEvent THEN Append(@, event) ELSE @],
                   es, r, h)

\* check_all_files from its first line to its first suspension.
BeginPass(es, r, h) ==
  PassAdvance([IdleTask EXCEPT !.kind = "pass", !.it_pos = 1,
                               !.it_used = Used(r), !.it_len = Used(r)],
              es, r, h)

\* A start() without its guard: every call makes and starts a scheduler.
StartEffectUnguarded(run, sch, lv) ==
  [is_running |-> TRUE, scheduler |-> 1, live |-> lv + 1]

\* start(): a second call while running returns at once.
StartEffect(run, sch, lv) ==
  IF run THEN [is_running |-> run, scheduler |-> sch, live |-> lv]
  ELSE [is_running |-> TRUE, scheduler |-> 1, live |-> lv + 1]

\* stop(): shuts the scheduler down if there is one.
StopEffect(run, sch, lv) ==
  [is_running |-> FALSE, scheduler |-> None,
   live |-> IF sch # None THEN lv - 1 ELSE lv]

\* An add_watched_file that keeps the entry of a watched key and renames it.
AddEffectKeepsEntry(es, r, h, ts, file_key, name) ==
  IF r[file_key] # NoObj
  THEN [entries |-> es, ref |-> r, heap |-> [h EXCEPT ![r[file_key]].name = name]]
  ELSE LET o == FreshObj(r, ts) IN
       [entries |-> InsertKey(es, file_key),
        ref |-> [r EXCEPT ![file_key] = o],
        heap |-> [h EXCEPT ![o] = NewWatchedFile(file_key, name)]]

\* add_watched_file: a fresh WatchedFile replaces whatever the key mapped to.
AddEffect(es, r, h, ts, file_key, name) ==
  LET o == FreshObj(r, ts) IN
  [entries |-> InsertKey(es, file_key),
   ref |-> [r EXCEPT ![file_key] = o],
   heap |-> [h EXCEPT ![o] = NewWatchedFile(file_key, name)]]

\* remove_watched_file: True and the entry deleted if the key is watched.
RemoveEffect(es, r, file_key) ==
  IF r[file_key] # NoObj
  THEN [entries |-> DeleteKey(es, file_key), ref |-> [r EXCEPT ![file_key] = NoObj],
        ret |-> TRUE]
  ELSE [entries |-> es, ref |-> r, ret |-> FALSE]

\* ------------------------------------------------- the generator's values
\* Characters of a file name, and the file names the design tool may hold.
Alnum == {"A", "a", "b", "i", "U+0130"}
KeptChars == {".", "_", "-", " "}
FileNameSet == {<<"A">>, <<"a">>, <<"b", "/">>}
DefaultFileNames == [k \in Keys |-> IF k = "k1" THEN <<"A">> ELSE <<"b", "/">>]

\* str.lower() on one character: "A" becomes "a"; U+0130, the capital I with
\* dot above, becomes the two characters "i" and U+0307, the combining dot
\* above, which is not alphanumeric; the others stay.
LowerChar(c) ==
  IF c = "A" THEN <<"a">>
  ELSE IF c = "U+0130" THEN <<"i", "U+0307">>
  ELSE <<c>>

\* str.lower()
RECURSIVE Lower(_)
Lower(s) == IF s = <<>> THEN <<>> ELSE LowerChar(Head(s)) \o Lower(Tail(s))

\* _save_documentation's safe_name: characters that are neither alphanumeric
\* nor one of "._- " become "_", then spaces become "_", then lower case.
SafeName(name) ==
  Lower([i \in 1..Len(name) |->
           LET c == IF name[i] \in Alnum \cup KeptChars THEN name[i] ELSE "_"
           IN IF c = " " THEN "_" ELSE c])

\* get_documentation's and get_documentation_content's safe_name, from the
\* figma_file_name of a metadata file.
SafeNameOfMeta(name) ==
  Lower([i \in 1..Len(name) |->
           LET c == IF name[i] \in Alnum \cup KeptChars THEN name[i] ELSE "_"
           IN IF c = " " THEN "_" ELSE c])

Slugs == {SafeName(n) : n \in FileNameSet}

\* The file key "" of a request.
EmptyKey == ""

\* A request to the design tool's API as it leaves the process.
ApiRequest(op, file_key, token) == [op |-> op, key |-> file_key, token |-> token]
NoRequest == ApiRequest("none", NoKey, TRUE)

\* DocFormat, and the values of the formats argument: {} is an omitted (None)
\* or empty list.
DocFormats == {"markdown", "html"}
FormatArgs == SUBSET DocFormats

\* The files of one sanitized name: {slug}.md, {slug}.html, {slug}_meta.json.
ArtifactKinds == {"md", "html", "meta"}

\* DocType: "user", "dev", "both"; "none" where there is no Documentation.
DocTypes == {"user", "dev", "both"}

\* What a file holds: the id of the Documentation it was written for, that
\* generation's file key, the file name it had and its doc_type (id 0: there
\* is no such file).
NoFile == [id |-> 0, key |-> NoKey, name |-> <<>>, doc_type |-> "none"]
NoArtifacts == [kind \in ArtifactKinds |-> NoFile]

\* A slot in which no generate_from_figma runs.
IdleGen ==
  [pc |-> "idle", caller |-> "none", key |-> NoKey, doc_type |-> "none",
   formats |-> {}, name |-> <<>>, id |-> 0, stage |-> "none", answer |-> "none"]

\* The input and the result of a parser run that has not been set up.
NoParse ==
  [text |-> <<>>, sections |-> <<>>, pc |-> "unset", section |-> 0, again |-> <<>>]

\* The input and the results of a slug derivation that has not been set up.
NoSlug == [name |-> <<>>, pc |-> "unset", saved |-> <<>>, read |-> <<>>, again |-> <<>>]

\* The input and the result of a listing that has not been set up.
NoListing == [files |-> <<>>, pc |-> "unset", raised |-> FALSE, docs |-> <<>>]

\* DocGenerator.__init__ and the settings the process starts with.
InitGenerator(token, names) ==
  /\ api_token = token
  /\ file_names = names
  /\ disk = [s \in Slugs |-> NoArtifacts]
  /\ gens = [g \in GenSlots |-> IdleGen]
  /\ doc_ids = 0
  /\ sent = NoRequest
  /\ parse = NoParse
  /\ slug = NoSlug
  /\ listing = NoListing

\* ---------------------------------------------------------------- Init
\* Inputs and result of one evaluation of the decision rule on its own.
NoRule == [sv |-> None, st |-> None, cv |-> EmptyVersion, ct |-> 0, out |-> "unset"]

InitHist ==
  [lastCall |-> "none",                   \* the last of start() and stop()
   net |-> {},                            \* keys whose last add/remove was an add
   lastAt |-> [k \in Keys |-> None],      \* changed_at of the key's last event
   requests |-> 0,                        \* requests and timer firings so far
   init |-> [k \in Keys |-> "none"],      \* how initialize()'s request for the
                                          \* key's present entry ended, if noted
   rule |-> NoRule]

\* The state after construction: FigmaChangeDetector.__init__, and the remote
\* files at their first version.
InitProgram ==
  /\ entries = <<>>
  /\ ref = [k \in Keys |-> NoObj]
  /\ heap = [o \in ObjIds |-> FreeCell]
  /\ callbacks = <<>>
  /\ is_running = FALSE
  /\ scheduler = None
  /\ live = 0
  /\ remote = [k \in Keys |-> [version |-> 1, modified |-> 0]]
  /\ tasks = [t \in Tasks |-> IdleTask]
  /\ phase = "startup"

Init == InitProgram /\ hist = InitHist /\ InitGenerator(TRUE, DefaultFileNames)

\* ------------------------------------------------------------- startup
\* The configured watched files: a list of distinct keys.
ConfigLists == {<<>>, <<"k1">>, <<"k1", "k2">>}

RECURSIVE LoadConfig(_, _, _, _, _)
\* load_watched_files_from_config: add_watched_file for each configured file.
LoadConfig(cfg, name, es, r, h) ==
  IF cfg = <<>> THEN [entries |-> es, ref |-> r, heap |-> h]
  ELSE LET a == AddEffect(es, r, h, [t \in Tasks |-> IdleTask], Head(cfg), name)
       IN LoadConfig(Tail(cfg), name, a.entries, a.ref, a.heap)

\* initialize() as it would be without its initial check: the files are loaded
\* and nothing is stored.
SeedSkipped(watched, outcome, meta, clock) == watched

\* initialize() as it would be without its test "if version:": whatever the
\* request returned is stored.
SeedStoresAny(watched, outcome, meta, clock) ==
  LET res == CheckFileChanged(outcome, None, None, meta) IN
  [watched EXCEPT !.last_version = res.version, !.last_modified = res.modified,
                  !.last_checked = clock]

\* initialize(), the initial check of one file: a returned non-empty version is
\* stored with its timestamp and the time of the check; no event is made.
Seed(watched, outcome, meta, clock) ==
  LET res == CheckFileChanged(outcome, None, None, meta) IN
  IF Truthy(res.version)
  THEN [watched EXCEPT !.last_version = res.version, !.last_modified = res.modified,
                       !.last_checked = clock]
  ELSE watched

\* lifespan(): initialize(), on_change(on_file_change), and start() if any file
\* is watched.  Nothing else runs in the process until it has finished.  With
\* `noted`, the history keeps how each initial request ended.
LifespanRuns(noted) ==
  /\ phase = "startup"
  /\ \E cfg \in ConfigLists, name \in Names, oc \in [Keys -> Outcomes] :
       LET l == LoadConfig(cfg, name, entries, ref, heap)
           h == [o \in ObjIds |->
                   IF \E k \in Keys : l.ref[k] = o
                   THEN LET k == CHOOSE k \in Keys : l.ref[k] = o
                        IN Seed(l.heap[o], oc[k], remote[k], Now)
                   ELSE l.heap[o]]
           s == IF cfg # <<>> THEN StartEffect(is_running, scheduler, live)
                ELSE [is_running |-> is_running, scheduler |-> scheduler, live |-> live]
       IN /\ entries' = l.entries
          /\ ref' = l.ref
          /\ heap' = h
          /\ callbacks' = Append(callbacks, "regen")
          /\ is_running' = s.is_running
          /\ scheduler' = s.scheduler
          /\ live' = s.live
          /\ hist' = [hist EXCEPT !.net = {cfg[i] : i \in 1..Len(cfg)},
                                  !.lastCall = IF cfg # <<>> THEN "start" ELSE @,
                                  !.init = IF noted
                                           THEN [k \in Keys |->
                                                   IF l.ref[k] # NoObj THEN oc[k]
                                                   ELSE "none"]
                                           ELSE @]
          /\ sent' = IF cfg = <<>> THEN sent
                      ELSE ApiRequest("check_file_changed", cfg[Len(cfg)], api_token)
  /\ phase' = "serving"
  /\ UNCHANGED <<remote, tasks>>
  /\ UNCHANGED <<api_token, file_names, disk, gens, doc_ids, parse, slug, listing>>

Lifespan == LifespanRuns(FALSE)

\* ------------------------------------------------------- Watch Registry
\* The coroutines, with a change of the dict's keys noted in those suspended.
Touch(ts, changed) ==
  [t \in Tasks |-> IF changed /\ ts[t].pc \in {"fetch", "cb"}
                   THEN [ts[t] EXCEPT !.touched = TRUE] ELSE ts[t]]

\* POST /figma/files after its verification fetch: add_watched_file.
AddWatchedFile(file_key, name) ==
  /\ phase = "serving"
  /\ api_token
  /\ LET a == AddEffect(entries, ref, heap, tasks, file_key, name) IN
       /\ entries' = a.entries
       /\ ref' = a.ref
       /\ heap' = Collect(a.heap, a.ref, tasks)
  /\ hist.requests < MaxRequests
  /\ hist' = [hist EXCEPT !.net = @ \cup {file_key}, !.requests = @ + 1,
                          !.init[file_key] = "none"]
  /\ tasks' = Touch(tasks, ref[file_key] = NoObj)
  /\ UNCHANGED <<callbacks, is_running, scheduler, live, remote, phase>>
  /\ UNCHANGED docVars

\* DELETE /figma/files/{file_key}: remove_watched_file.
RemoveWatchedFile(file_key) ==
  /\ phase = "serving"
  /\ LET d == RemoveEffect(entries, ref, file_key) IN
       /\ entries' = d.entries
       /\ ref' = d.ref
       /\ heap' = Collect(heap, d.ref, tasks)
       /\ hist.requests < MaxRequests
       /\ hist' = [hist EXCEPT !.net = @ \ {file_key}, !.requests = @ + 1,
                               !.init[file_key] = "none"]
  /\ tasks' = Touch(tasks, ref[file_key] # NoObj)
  /\ UNCHANGED <<callbacks, is_running, scheduler, live, remote, phase>>
  /\ UNCHANGED docVars

\* POST /docs/generate, after generate_from_figma has succeeded: the watched
\* file of that key, if any, is flagged.
MarkGenerated(file_key) ==
  /\ phase = "serving"
  /\ heap' = IF ref[file_key] # NoObj
             THEN [heap EXCEPT ![ref[file_key]].doc_generated = TRUE]
             ELSE heap
  /\ hist.requests < MaxRequests
  /\ hist' = [hist EXCEPT !.requests = @ + 1]
  /\ UNCHANGED <<entries, ref, callbacks, is_running, scheduler, live, remote, tasks, phase>>
  /\ UNCHANGED docVars

\* on_change(callback): another callback is registered after the lifespan's.
OnChange(kind) ==
  /\ phase = "serving"
  /\ Len(callbacks) < MaxCallbacks
  /\ callbacks' = Append(callbacks, kind)
  /\ hist.requests < MaxRequests
  /\ hist' = [hist EXCEPT !.requests = @ + 1]
  /\ UNCHANGED <<entries, ref, heap, is_running, scheduler, live, remote, tasks, phase>>
  /\ UNCHANGED docVars

\* --------------------------------------------------------- Change Poller
\* POST /detection/start: start().
Start ==
  /\ phase = "serving"
  /\ LET s == StartEffect(is_running, scheduler, live) IN
       /\ is_running' = s.is_running
       /\ scheduler' = s.scheduler
       /\ live' = s.live
  /\ hist.requests < MaxRequests
  /\ hist' = [hist EXCEPT !.lastCall = IF is_running THEN "start again" ELSE "start",
                          !.requests = @ + 1]
  /\ UNCHANGED <<entries, ref, heap, callbacks, remote, tasks, phase>>
  /\ UNCHANGED docVars

\* POST /detection/stop: stop().  Shutting the scheduler down cancels the job's
\* running coroutine at its suspension point.
Stop ==
  /\ phase = "serving"
  /\ LET s == StopEffect(is_running, scheduler, live) IN
       /\ is_running' = s.is_running
       /\ scheduler' = s.scheduler
       /\ live' = s.live
  /\ tasks' = IF scheduler # None THEN [tasks EXCEPT ![TimerJob] = IdleTask] ELSE tasks
  /\ heap' = Collect(heap, ref, tasks')
  /\ hist.requests < MaxRequests
  /\ hist' = [hist EXCEPT !.lastCall = IF is_running THEN "stop" ELSE "stop again",
                          !.requests = @ + 1]
  /\ UNCHANGED <<entries, ref, callbacks, remote, phase>>
  /\ UNCHANGED docVars

\* No coroutine runs in the slot: none was started, or the last one has returned
\* (its result stays to be read) or raised.
Finished(task) == task.pc \in {"idle", "done", "error"}

\* The interval trigger fires: _polling_job, one instance at a time.
TimerFires ==
  /\ phase = "serving"
  /\ hist.requests < MaxRequests
  /\ hist' = [hist EXCEPT !.requests = @ + 1]
  /\ is_running
  /\ Finished(tasks[TimerJob])
  /\ tasks' = [tasks EXCEPT ![TimerJob] = BeginPass(entries, ref, heap)]
  /\ UNCHANGED <<entries, ref, heap, callbacks, is_running, scheduler, live,
                 remote, phase>>
  /\ UNCHANGED docVars

\* POST /detection/check-all: check_all_files.
StartCheckAll(t) ==
  /\ phase = "serving"
  /\ hist.requests < MaxRequests
  /\ hist' = [hist EXCEPT !.requests = @ + 1]
  /\ t # TimerJob
  /\ Finished(tasks[t])
  /\ tasks' = [tasks EXCEPT ![t] = BeginPass(entries, ref, heap)]
  /\ UNCHANGED <<entries, ref, heap, callbacks, is_running, scheduler, live,
                 remote, phase>>
  /\ UNCHANGED docVars

\* POST /figma/files/{file_key}/check: check_file; an unwatched key returns None.
StartCheck(t, file_key) ==
  /\ phase = "serving"
  /\ hist.requests < MaxRequests
  /\ hist' = [hist EXCEPT !.requests = @ + 1]
  /\ t # TimerJob
  /\ Finished(tasks[t])
  /\ tasks' = [tasks EXCEPT ![t] =
       IF ref[file_key] # NoObj
       THEN BeginCheck([IdleTask EXCEPT !.kind = "check"], file_key, ref, heap)
       ELSE Ended([IdleTask EXCEPT !.kind = "check", !.key = file_key], "done")]
  /\ UNCHANGED <<entries, ref, heap, callbacks, is_running, scheduler, live,
                 remote, phase>>
  /\ UNCHANGED docVars

\* check_file without its lines 136-137: the new version is never stored.
CheckStepNoStore(task, watched, res, clock, cbs) ==
  LET w1 == [watched EXCEPT !.last_checked = clock]
      fire == res.changed /\ Truthy(res.version)
  IN [watched |-> w1,
      event |-> IF fire THEN FileChangeEvent(w1, res.version, res.modified) ELSE NoEvent,
      waits |-> fire /\ cbs # <<>>]

\* check_file without its line 122: the time of the check is stored only with
\* a new version.
CheckStepNoStamp(task, watched, res, clock, cbs) ==
  LET fire == res.changed /\ Truthy(res.version)
      w1 == [watched EXCEPT !.last_checked = IF fire THEN clock ELSE @]
  IN [watched |-> IF fire
                  THEN [w1 EXCEPT !.last_version = res.version,
                                  !.last_modified = res.modified]
                  ELSE w1,
      event |-> IF fire THEN FileChangeEvent(w1, res.version, res.modified) ELSE NoEvent,
      waits |-> fire /\ cbs # <<>>]

\* check_file as it would be if it stored what the request returned whether or
\* not it made an event.
CheckStepStoresAlways(task, watched, res, clock, cbs) ==
  LET w1 == [watched EXCEPT !.last_checked = clock]
      fire == res.changed /\ Truthy(res.version)
      event == FileChangeEvent(w1, res.version, res.modified)
  IN [watched |-> [w1 EXCEPT !.last_version = res.version,
                             !.last_modified = res.modified],
      event |-> IF fire THEN event ELSE NoEvent,
      waits |-> fire /\ cbs # <<>>]

\* check_file as it would be without its line 140: the event is returned but
\* no callback is told.
CheckStepNoNotify(task, watched, res, clock, cbs) ==
  LET w1 == [watched EXCEPT !.last_checked = clock]
      fire == res.changed /\ Truthy(res.version)
      event == FileChangeEvent(w1, res.version, res.modified)
  IN [watched |-> IF fire
                  THEN [w1 EXCEPT !.last_version = res.version,
                                  !.last_modified = res.modified]
                  ELSE w1,
      event |-> IF fire THEN event ELSE NoEvent,
      waits |-> FALSE]

\* check_file as it would be if it left the version to be stored after the
\* callbacks: with callbacks registered nothing is stored.
CheckStepDefersStore(task, watched, res, clock, cbs) ==
  LET w1 == [watched EXCEPT !.last_checked = clock]
      fire == res.changed /\ Truthy(res.version)
      event == FileChangeEvent(w1, res.version, res.modified)
  IN [watched |-> IF fire /\ cbs = <<>>
                  THEN [w1 EXCEPT !.last_version = res.version,
                                  !.last_modified = res.modified]
                  ELSE w1,
      event |-> IF fire THEN event ELSE NoEvent,
      waits |-> fire /\ cbs # <<>>]

\* check_file from the return of check_file_changed: the time of the check is
\* stored; on a change with a non-empty version the event is built, the version
\* and timestamp are stored and the first callback is called.
CheckStep(task, watched, res, clock, cbs) ==
  LET w1 == [watched EXCEPT !.last_checked = clock]
      fire == res.changed /\ Truthy(res.version)
      event == FileChangeEvent(w1, res.version, res.modified)
  IN [watched |-> IF fire
                  THEN [w1 EXCEPT !.last_version = res.version,
                                  !.last_modified = res.modified]
                  ELSE w1,
      event |-> IF fire THEN event ELSE NoEvent,
      waits |-> fire /\ cbs # <<>>]

\* The heap once time has passed: every stored reading of the clock is earlier
\* than the next datetime.now().
Later(h) ==
  [o \in ObjIds |-> IF h[o].last_checked = Now
                    THEN [h[o] EXCEPT !.last_checked = Earlier] ELSE h[o]]

\* The metadata request of task t ends with `outcome`, some time after it was
\* sent.
FetchReturns(t, outcome) ==
  /\ tasks[t].pc = "fetch"
  /\ LET task == tasks[t]
         res == CheckFileChanged(outcome, task.kv, task.km, remote[task.key])
         c == CheckStep(task, Later(heap)[task.obj], res, Now, callbacks)
         h == [Later(heap) EXCEPT ![task.obj] = c.watched]
         made == [task EXCEPT !.got = res.version,
                                 !.failed = IF res.version = None THEN @ \cup {task.key} ELSE @,
                                 !.made = IF c.event # NoEvent THEN Append(@, c.event) ELSE @,
                                 !.called = IF c.event # NoEvent THEN <<>> ELSE @,
                                 !.raised = IF c.event # NoEvent THEN 0 ELSE @]
     IN /\ tasks' = [tasks EXCEPT ![t] =
             IF c.waits
             THEN [made EXCEPT !.pc = "cb", !.obj = NoObj, !.kv = None, !.km = None,
                               !.ev = c.event, !.cbi = 1, !.called = <<1>>]
             ELSE ReturnFromCheck(made, c.event, entries, ref, h)]
        /\ heap' = Collect(h, ref, tasks')
        /\ hist' = IF c.event # NoEvent
                   THEN [hist EXCEPT !.lastAt[task.key] = c.event.changed_at]
                   ELSE hist
  /\ UNCHANGED <<entries, ref, callbacks, is_running, scheduler, live, remote, phase>>
  /\ UNCHANGED docVars

\* A _notify_change without its try/except: a callback that raises ends the loop.
NotifyStepStopsOnRaise(task, raises, cbs) ==
  LET t1 == [task EXCEPT !.raised = IF raises /\ @ = 0 THEN task.cbi ELSE @] IN
  IF task.cbi < Len(cbs) /\ ~raises
  THEN [t1 EXCEPT !.cbi = @ + 1, !.called = Append(@, task.cbi + 1)]
  ELSE [t1 EXCEPT !.cbi = 0]

\* _notify_change as it would be if it went on after the first callback
\* without waiting for the others.
NotifyStepFirstOnly(task, raises, cbs) ==
  [task EXCEPT !.raised = IF raises /\ @ = 0 THEN task.cbi ELSE @, !.cbi = 0]

\* _notify_change after callback number cbi has returned or raised: an
\* exception is logged, and the loop goes on with the next callback of the list.
NotifyStep(task, raises, cbs) ==
  LET t1 == [task EXCEPT !.raised = IF raises /\ @ = 0 THEN task.cbi ELSE @] IN
  IF task.cbi < Len(cbs)
  THEN [t1 EXCEPT !.cbi = @ + 1, !.called = Append(@, task.cbi + 1)]
  ELSE [t1 EXCEPT !.cbi = 0]

\* The awaited callback of task t returns or raises.  on_file_change catches
\* what update_documentation raises, so the lifespan's callback never raises.
CallbackReturns(t, raises) ==
  /\ tasks[t].pc = "cb"
  /\ raises => callbacks[tasks[t].cbi] = "hook"
  /\ LET n == NotifyStep(tasks[t], raises, callbacks) IN
       tasks' = [tasks EXCEPT ![t] =
         IF n.cbi # 0 THEN n
         ELSE ReturnFromCheck(n, n.ev, entries, ref, heap)]
  /\ heap' = Collect(heap, ref, tasks')
  /\ UNCHANGED <<entries, ref, callbacks, is_running, scheduler, live, remote, phase, hist>>
  /\ UNCHANGED docVars

\* ------------------------------------------------------- the environment
RECURSIVE SumModified(_, _)
SumModified(rem, ks) ==
  IF ks = {} THEN 0
  ELSE LET k == CHOOSE k \in ks : TRUE IN rem[k].modified + SumModified(rem, ks \ {k})

\* Edits of the remote files so far: each moves one timestamp on by one.
Edits(rem) == SumModified(rem, Keys)

\* The remote file is edited: a new version with a later timestamp.
RemoteEdit(file_key) ==
  /\ Edits(remote) < MaxTime
  /\ \E v \in Versions \ {remote[file_key].version} :
       remote' = [remote EXCEPT ![file_key] = [version |-> v, modified |-> @.modified + 1]]
  /\ UNCHANGED <<entries, ref, heap, callbacks, is_running, scheduler, live, tasks, phase, hist>>
  /\ UNCHANGED docVars

\* The remote file's timestamp moves on under the same version.
RemoteTouch(file_key) ==
  /\ Edits(remote) < MaxTime
  /\ remote' = [remote EXCEPT ![file_key].modified = @ + 1]
  /\ UNCHANGED <<entries, ref, heap, callbacks, is_running, scheduler, live, tasks, phase, hist>>
  /\ UNCHANGED docVars

Next ==
  \/ Lifespan
  \/ \E k \in Keys, n \in Names : AddWatchedFile(k, n)
  \/ \E k \in Keys : RemoveWatchedFile(k)
  \/ \E k \in Keys : MarkGenerated(k)
  \/ OnChange("hook")
  \/ Start
  \/ Stop
  \/ TimerFires
  \/ \E t \in Tasks : StartCheckAll(t)
  \/ \E t \in Tasks, k \in Keys : StartCheck(t, k)
  \/ \E t \in Tasks, oc \in Outcomes : FetchReturns(t, oc)
  \/ \E t \in Tasks, r \in BOOLEAN : CallbackReturns(t, r)
  \/ \E k \in Keys : RemoteEdit(k)
  \/ \E k \in Keys : RemoteTouch(k)

Spec == Init /\ [][Next]_vars

\* ------------------------------------------- the decision rule on its own
\* Every call of check_file_changed the types of check_file's arguments allow:
\* a stored version is None or a version id, a stored timestamp None or a time.
RuleInputs ==
  [sv : {None} \cup Versions, st : {None} \cup Times,
   cv : {EmptyVersion} \cup Versions, ct : Times, out : {"unset"}]

InitRule ==
  /\ InitProgram
  /\ InitGenerator(TRUE, DefaultFileNames)
  /\ \E r \in RuleInputs : hist = [InitHist EXCEPT !.rule = r]

\* check_file_changed decides.
Decide ==
  /\ hist.rule.out = "unset"
  /\ hist' = [hist EXCEPT !.rule.out =
                IF HasChanged(hist.rule.sv, hist.rule.st, hist.rule.cv, hist.rule.ct)
                THEN "changed" ELSE "unchanged"]
  /\ UNCHANGED <<entries, ref, heap, callbacks, is_running, scheduler, live,
                 remote, tasks, phase>>
  /\ UNCHANGED docVars

SpecRule == InitRule /\ [][Decide]_vars

\* ------------------------------------------------ Documentation Generator
\* generate_from_figma line 281: "formats or [MARKDOWN, HTML]".
\* generate_from_figma without line 281's default.
EffectiveFormatsNoDefault(formats) == formats

EffectiveFormats(formats) == IF formats = {} THEN DocFormats ELSE formats

\* The files _save_documentation writes, in the order it writes them.
WriteOrder(formats) ==
  (IF "markdown" \in formats THEN <<"md">> ELSE <<>>)
  \o (IF "html" \in formats THEN <<"html">> ELSE <<>>)
  \o <<"meta">>

\* _save_documentation as it would be if it kept a metadata file it found.
SaveDocumentationKeepsMeta(d, doc, formats, fails_at) ==
  LET w == WriteOrder(formats)
      n == IF fails_at = 0 THEN Len(w) ELSE fails_at - 1
      written == {w[i] : i \in 1..n}
  IN [d EXCEPT ![SafeName(doc.name)] =
        [kind \in ArtifactKinds |->
           IF kind \in written /\ (kind = "meta" => @[kind] = NoFile)
           THEN doc ELSE @[kind]]]

\* _save_documentation as it would be if it never wrote the markdown file.
SaveDocumentationSkipsMarkdown(d, doc, formats, fails_at) ==
  LET w == WriteOrder(formats)
      n == IF fails_at = 0 THEN Len(w) ELSE fails_at - 1
      written == {w[i] : i \in 1..n} \ {"md"}
  IN [d EXCEPT ![SafeName(doc.name)] =
        [kind \in ArtifactKinds |-> IF kind \in written THEN doc ELSE @[kind]]]

\* _save_documentation: the output directory after it; fails_at is the number
\* of the write that raises (0: none does), the writes before it are done.
SaveDocumentation(d, doc, formats, fails_at) ==
  LET w == WriteOrder(formats)
      n == IF fails_at = 0 THEN Len(w) ELSE fails_at - 1
      written == {w[i] : i \in 1..n}
  IN [d EXCEPT ![SafeName(doc.name)] =
        [kind \in ArtifactKinds |->
           IF kind \in written THEN doc ELSE @[kind]]]

\* list_documentation(): the metadata files of the output directory.
ListDocumentation(d) ==
  {[slug |-> sl, id |-> d[sl]["meta"].id, key |-> d[sl]["meta"].key,
    name |-> d[sl]["meta"].name] :
     sl \in {x \in Slugs : d[x]["meta"] # NoFile}}

\* A failure the endpoint would answer as a success.
GenFailedAnswersOK(gen, stage) ==
  [gen EXCEPT !.pc = "failed", !.stage = stage, !.id = 0, !.formats = {},
              !.name = <<>>, !.doc_type = "none", !.answer = "200"]

\* get_documentation(doc_id): the metadata of the listed document with that id
\* and, as content, what the markdown file of its name's slug holds (NoFile:
\* no content is attached); NoDoc for None.
NoDoc == [id |-> 0, key |-> NoKey, name |-> <<>>, content |-> NoFile]
GetDocumentation(d, doc_id) ==
  LET found == {e \in ListDocumentation(d) : e.id = doc_id}
  IN IF found = {} THEN NoDoc
     ELSE LET e == CHOOSE x \in found : TRUE
          IN [id |-> e.id, key |-> e.key, name |-> e.name,
              content |-> d[SafeNameOfMeta(e.name)]["md"]]

\* An exception leaves generate_from_figma: the endpoint answers 500, the
\* change callback logs it; neither gets a Documentation.  The coroutine's
\* locals are gone.
GenFailed(gen, stage) ==
  [gen EXCEPT !.pc = "failed", !.stage = stage, !.id = 0, !.formats = {},
              !.name = <<>>, !.doc_type = "none",
              !.answer = IF gen.caller = "endpoint" THEN "500" ELSE "logged"]

\* generate_from_figma returns doc: the endpoint answers with it, the change
\* callback logs the update.
GenDone(gen, id) ==
  [gen EXCEPT !.pc = "done", !.stage = "none", !.id = id, !.formats = {},
              !.name = <<>>, !.doc_type = "none",
              !.answer = IF gen.caller = "endpoint" THEN "200" ELSE "logged"]

\* What the caller of a successful generation does to the watch registry: the
\* generate endpoint flags the watched file of that key, on_file_change nothing.
FlagGenerated(h, r, caller, file_key) ==
  IF caller = "endpoint" /\ file_key \in Keys /\ r[file_key] # NoObj
  THEN [h EXCEPT ![r[file_key]].doc_generated = TRUE]
  ELSE h

GenBusy == {g \in GenSlots : gens[g].pc \in {"fetch", "llm"}}

\* update_documentation(file_key, doc_type): generate_from_figma is called with
\* the key and the doc_type and without formats.
UpdateDocumentation(file_key, doc_type) ==
  [key |-> file_key, doc_type |-> doc_type, formats |-> {}]

\* on_file_change as it would be if it asked for user documentation.
OnFileChangeUserDocs(file_key) == UpdateDocumentation(file_key, "user")

\* on_file_change(event): update_documentation(event.file_key), the doc_type
\* left at its default DocType.BOTH.
OnFileChange(file_key) == UpdateDocumentation(file_key, "both")

\* POST /docs/generate (caller "endpoint") or on_file_change for an event of a
\* watched file (caller "callback", update_documentation): generate_from_figma
\* up to the request of get_file, which first validates the key and the token.
GenStartTyped(g, caller, file_key, doc_type, formats) ==
  /\ phase = "serving"
  /\ g \notin GenBusy
  /\ doc_ids + Cardinality(GenBusy) < MaxDocs
  /\ caller = "callback" =>
       /\ file_key \in Watched
       /\ [key |-> file_key, doc_type |-> doc_type, formats |-> formats]
            = OnFileChange(file_key)
  /\ LET gen == [IdleGen EXCEPT !.caller = caller, !.key = file_key,
                                !.doc_type = doc_type,
                                !.formats = EffectiveFormats(formats)]
     IN IF file_key = EmptyKey \/ ~api_token
        THEN /\ gens' = [gens EXCEPT ![g] = GenFailed(gen, "validation")]
             /\ sent' = sent
        ELSE /\ gens' = [gens EXCEPT ![g] = [gen EXCEPT !.pc = "fetch"]]
             /\ sent' = ApiRequest("get_file", file_key, api_token)
  /\ UNCHANGED <<entries, ref, heap, callbacks, is_running, scheduler, live, remote,
                 tasks, phase, hist, api_token, file_names, disk, doc_ids, parse, slug, listing>>

\* A generation whose doc_type is DocType.BOTH: a request to the endpoint that
\* leaves doc_type at its default, or the change callback.
GenStart(g, caller, file_key, formats) ==
  GenStartTyped(g, caller, file_key, "both", formats)

\* get_file returns or raises; extract_design_info runs (or raises) and the
\* generation is requested from the LLM.
GenFileReturns(g, outcome) ==
  /\ gens[g].pc = "fetch"
  /\ gens' = [gens EXCEPT ![g] =
       CASE outcome = "ok" ->
              [gens[g] EXCEPT !.pc = "llm", !.name = file_names[gens[g].key]]
         [] outcome = "fetch_error" -> GenFailed(gens[g], "fetch")
         [] outcome = "extract_error" -> GenFailed(gens[g], "extraction")]
  /\ UNCHANGED <<entries, ref, heap, callbacks, is_running, scheduler, live, remote,
                 tasks, phase, hist, api_token, file_names, disk, doc_ids, sent, parse, slug, listing>>

\* The LLM returns or raises; on a return the Documentation is created with a
\* new id and saved (write number fails_at raises, 0: none), and the caller
\* goes on with the returned object.
GenLLMReturns(g, outcome, fails_at) ==
  /\ gens[g].pc = "llm"
  /\ LET gen == gens[g]
         doc == [id |-> doc_ids + 1, key |-> gen.key, name |-> gen.name,
                 doc_type |-> gen.doc_type]
     IN IF outcome = "llm_error"
        THEN /\ fails_at = 0
             /\ gens' = [gens EXCEPT ![g] = GenFailed(gen, "generation")]
             /\ UNCHANGED <<doc_ids, disk, heap>>
        ELSE /\ fails_at <= Len(WriteOrder(gen.formats))
             /\ doc_ids' = doc.id
             /\ disk' = SaveDocumentation(disk, doc, gen.formats, fails_at)
             /\ IF fails_at # 0
                THEN /\ gens' = [gens EXCEPT ![g] = GenFailed(gen, "persistence")]
                     /\ heap' = heap
                ELSE /\ gens' = [gens EXCEPT ![g] = GenDone(gen, doc.id)]
                     /\ heap' = FlagGenerated(heap, ref, gen.caller, gen.key)
  /\ UNCHANGED <<entries, ref, callbacks, is_running, scheduler, live, remote,
                 tasks, phase, hist, api_token, file_names, sent, parse, slug, listing>>

\* check_file_changed for a watched file, up to its request: neither the key
\* nor the token is looked at before the request is made.
MetadataRequest(file_key) ==
  /\ phase = "serving"
  /\ file_key \in Watched
  /\ sent' = ApiRequest("check_file_changed", file_key, api_token)
  /\ UNCHANGED <<entries, ref, heap, callbacks, is_running, scheduler, live, remote,
                 tasks, phase, hist, api_token, file_names, disk, gens, doc_ids, parse, slug, listing>>

\* The file is renamed in the design tool.
RemoteRename(file_key) ==
  /\ \E n \in FileNameSet \ {file_names[file_key]} :
       file_names' = [file_names EXCEPT ![file_key] = n]
  /\ UNCHANGED <<entries, ref, heap, callbacks, is_running, scheduler, live, remote,
                 tasks, phase, hist, api_token, disk, gens, doc_ids, sent, parse, slug, listing>>

\* The process with any token setting and any file names.
InitDocs ==
  /\ InitProgram
  /\ hist = InitHist
  /\ \E token \in BOOLEAN, names \in [Keys -> FileNameSet] : InitGenerator(token, names)

GenOutcomes == {"ok", "fetch_error", "extract_error"}
LLMOutcomes == {"ok", "llm_error"}

NextDocs ==
  \/ Lifespan
  \/ \E g \in GenSlots, c \in {"endpoint", "callback"}, k \in Keys \cup {EmptyKey},
        f \in FormatArgs : GenStart(g, c, k, f)
  \/ \E g \in GenSlots, oc \in GenOutcomes : GenFileReturns(g, oc)
  \/ \E g \in GenSlots, oc \in LLMOutcomes, n \in 0..3 : GenLLMReturns(g, oc, n)
  \/ \E k \in Keys : MetadataRequest(k)
  \/ \E k \in Keys : RemoteRename(k)

SpecDocs == InitDocs /\ [][NextDocs]_vars

\* ============================================================ Regeneration
\* The generator with requests of the default doc_type and of another one, in
\* the default formats and in one format, the change callback and renamed
\* files; the token is set.
RequestedDocTypes == {"user", "both"}
RequestedFormats == {{}, {"html"}}

NextRegen ==
  \/ Lifespan
  \/ \E g \in GenSlots, k \in Keys, dt \in RequestedDocTypes, f \in RequestedFormats :
        GenStartTyped(g, "endpoint", k, dt, f)
  \/ \E g \in GenSlots, k \in Keys, dt \in DocTypes, f \in FormatArgs :
        GenStartTyped(g, "callback", k, dt, f)
  \/ \E g \in GenSlots, oc \in GenOutcomes : GenFileReturns(g, oc)
  \/ \E g \in GenSlots, oc \in LLMOutcomes, n \in 0..3 : GenLLMReturns(g, oc, n)
  \/ \E k \in Keys : RemoteRename(k)

SpecRegen == Init /\ [][NextRegen]_vars

\* ============================================================ Section Parser
\* A text is a sequence of characters.  str.strip() removes the white space at
\* both ends; of the characters of Texts these are the blank and the newline.

Whitespace == {" ", "\n"}
Heading2 == <<"#", "#", " ">>

\* The lines texts are made of: empty, plain, indented, level-2 headings with
\* and without title and trailing blank, an indented heading, "##" without
\* the blank.
LineSet ==
  { <<>>, <<"a">>, <<" ", "a">>,
    <<"#", "#", " ", "a">>, <<"#", "#", " ">>, <<"#", "#", " ", "a", " ">>,
    <<" ", "#", "#", " ", "a">>, <<"#", "#", "a">> }

\* "\n".join(lines)
RECURSIVE Join(_)
Join(lines) ==
  IF lines = <<>> THEN <<>>
  ELSE IF Len(lines) = 1 THEN lines[1]
  ELSE lines[1] \o <<"\n">> \o Join(Tail(lines))

Texts == {Join(ls) : ls \in UNION {[1..n -> LineSet] : n \in 1..MaxLines}}

\* text.split("\n")
RECURSIVE Split(_)
Split(text) ==
  IF \A i \in 1..Len(text) : text[i] # "\n"
  THEN <<text>>
  ELSE LET i == CHOOSE j \in 1..Len(text) :
                  text[j] = "\n" /\ \A m \in 1..(j - 1) : text[m] # "\n"
       IN <<SubSeq(text, 1, i - 1)>> \o Split(SubSeq(text, i + 1, Len(text)))

\* text.strip()
Strip(text) ==
  LET keep == {i \in 1..Len(text) : text[i] \notin Whitespace}
  IN IF keep = {} THEN <<>>
     ELSE SubSeq(text, CHOOSE i \in keep : \A j \in keep : i <= j,
                       CHOOSE i \in keep : \A j \in keep : j <= i)

\* line.startswith(prefix)
StartsWith(line, prefix) ==
  Len(line) >= Len(prefix) /\ SubSeq(line, 1, Len(prefix)) = prefix

\* current_section = None, and the locals of _parse_markdown_sections before
\* its loop.  A DocSection's id (a uuid4) is left out.
NoSection == [title |-> <<>>, content |-> <<>>, order |-> None]
LoopStart ==
  [sections |-> <<>>, current_section |-> NoSection, current_content |-> <<>>,
   section_order |-> 0]

\* "if current_section: current_section.content = ...; sections.append(...)"
SaveSection(st) ==
  IF st.current_section # NoSection
  THEN Append(st.sections,
              [st.current_section EXCEPT !.content = Strip(Join(st.current_content))])
  ELSE st.sections

\* The loop over the lines.
RECURSIVE ParseLoop(_, _)
ParseLoop(lines, st) ==
  IF lines = <<>> THEN st
  ELSE LET line == Head(lines)
       IN ParseLoop(Tail(lines),
            IF StartsWith(line, Heading2)
            THEN [sections |-> SaveSection(st),
                  current_section |->
                    [title |-> Strip(SubSeq(line, 4, Len(line))),
                     content |-> <<>>, order |-> st.section_order],
                  current_content |-> <<>>,
                  section_order |-> st.section_order + 1]
            ELSE IF st.current_section # NoSection
                 THEN [st EXCEPT !.current_content = Append(@, line)]
                 ELSE st)

\* _parse_markdown_sections without the save after the loop.
ParseMarkdownSectionsNoLastSave(text) == ParseLoop(Split(text), LoopStart).sections

\* _parse_markdown_sections(markdown_content)
ParseMarkdownSections(text) == SaveSection(ParseLoop(Split(text), LoopStart))

\* The parser is given a text.
Parse ==
  /\ parse.pc = "input"
  /\ parse' = [parse EXCEPT !.sections = ParseMarkdownSections(parse.text),
                            !.pc = "parsed"]
  /\ UNCHANGED <<entries, ref, heap, callbacks, is_running, scheduler, live, remote,
                 tasks, phase, hist, api_token, file_names, disk, gens, doc_ids, sent, slug, listing>>

\* The parser is given "## " + title + "\n" + content of section i it made.
Reparse(i) ==
  /\ parse.pc = "parsed"
  /\ i \in 1..Len(parse.sections)
  /\ parse' = [parse EXCEPT
       !.section = i,
       !.again = ParseMarkdownSections(Heading2 \o parse.sections[i].title
                                       \o <<"\n">> \o parse.sections[i].content),
       !.pc = "reparsed"]
  /\ UNCHANGED <<entries, ref, heap, callbacks, is_running, scheduler, live, remote,
                 tasks, phase, hist, api_token, file_names, disk, gens, doc_ids, sent, slug, listing>>

\* The parser with any text.
InitParse ==
  /\ InitProgram
  /\ hist = InitHist
  /\ api_token = TRUE
  /\ file_names = DefaultFileNames
  /\ disk = [s \in Slugs |-> NoArtifacts]
  /\ gens = [g \in GenSlots |-> IdleGen]
  /\ doc_ids = 0
  /\ sent = NoRequest
  /\ \E text \in Texts : parse = [NoParse EXCEPT !.text = text, !.pc = "input"]
  /\ slug = NoSlug
  /\ listing = NoListing

NextParse ==
  \/ Parse
  \/ \E i \in 1..MaxLines : Reparse(i)

SpecParse == InitParse /\ [][NextParse]_vars

\* ============================================================ Poller, fair
\* The started poller under a scheduler that keeps firing: timer firings are
\* not counted here.  The watch registry is the one the configuration gave;
\* nothing is added, removed, stopped or checked by request.

\* The scheduler's interval elapses: _polling_job runs unless its last run has
\* not finished (max_instances = 1).
PollerFires ==
  /\ phase = "serving"
  /\ is_running
  /\ Finished(tasks[TimerJob])
  /\ tasks' = [tasks EXCEPT ![TimerJob] = BeginPass(entries, ref, heap)]
  /\ UNCHANGED <<entries, ref, heap, callbacks, is_running, scheduler, live,
                 remote, phase, hist>>
  /\ UNCHANGED docVars

\* The metadata request of a check of file_key succeeds.
FetchSucceeds(file_key) ==
  \E t \in Tasks : tasks[t].key = file_key /\ FetchReturns(t, "ok")

NextLive ==
  \/ Lifespan
  \/ PollerFires
  \/ \E t \in Tasks, oc \in Outcomes : FetchReturns(t, oc)
  \/ \E t \in Tasks, r \in BOOLEAN : CallbackReturns(t, r)
  \/ \E k \in Keys : RemoteEdit(k)
  \/ \E k \in Keys : RemoteTouch(k)

\* The timer keeps firing, every request returns, the requests for a file
\* succeed again and again, and every awaited callback returns.
FairLive ==
  /\ WF_vars(Lifespan)
  /\ WF_vars(PollerFires)
  /\ \A t \in Tasks : WF_vars(\E oc \in Outcomes : FetchReturns(t, oc))
  /\ \A k \in Keys : SF_vars(FetchSucceeds(k))
  /\ \A t \in Tasks : WF_vars(\E r \in BOOLEAN : CallbackReturns(t, r))

SpecLive == Init /\ [][NextLive]_vars /\ FairLive

\* ============================================================ Startup, noted
\* The lifespan with the end of each initial request kept in the history, then
\* the registry's requests, the poller and the checks.
LifespanNoted == LifespanRuns(TRUE)

NextSeed ==
  \/ LifespanNoted
  \/ \E k \in Keys, n \in Names : AddWatchedFile(k, n)
  \/ \E k \in Keys : RemoveWatchedFile(k)
  \/ TimerFires
  \/ \E t \in Tasks, k \in Keys : StartCheck(t, k)
  \/ \E t \in Tasks, oc \in Outcomes : FetchReturns(t, oc)
  \/ \E t \in Tasks, r \in BOOLEAN : CallbackReturns(t, r)
  \/ \E k \in Keys : RemoteEdit(k)
  \/ \E k \in Keys : RemoteTouch(k)

SpecSeed == Init /\ [][NextSeed]_vars

\* ============================================================ Slug derivation
\* The characters of source names: a capital and a small letter, the blank, a
\* kept and a replaced punctuation character, and U+0130.
NameChars == {"A", "b", " ", "-", "/", "U+0130"}
SourceNames == UNION {[1..n -> NameChars] : n \in 1..MaxNameLen}

\* A name is sanitized for saving and for reading.
Slugify ==
  /\ slug.pc = "name"
  /\ slug' = [slug EXCEPT !.saved = SafeName(slug.name),
                          !.read = SafeNameOfMeta(slug.name),
                          !.pc = "slug"]
  /\ UNCHANGED <<entries, ref, heap, callbacks, is_running, scheduler, live, remote,
                 tasks, phase, hist, api_token, file_names, disk, gens, doc_ids, sent,
                 parse, listing>>

\* The sanitized name is sanitized.
Reslugify ==
  /\ slug.pc = "slug"
  /\ slug' = [slug EXCEPT !.again = SafeName(slug.saved), !.pc = "again"]
  /\ UNCHANGED <<entries, ref, heap, callbacks, is_running, scheduler, live, remote,
                 tasks, phase, hist, api_token, file_names, disk, gens, doc_ids, sent,
                 parse, listing>>

\* The derivation with any source name.
InitSlug ==
  /\ InitProgram
  /\ hist = InitHist
  /\ api_token = TRUE
  /\ file_names = DefaultFileNames
  /\ disk = [s \in Slugs |-> NoArtifacts]
  /\ gens = [g \in GenSlots |-> IdleGen]
  /\ doc_ids = 0
  /\ sent = NoRequest
  /\ parse = NoParse
  /\ \E name \in SourceNames : slug = [NoSlug EXCEPT !.name = name, !.pc = "name"]
  /\ listing = NoListing

NextSlug ==
  \/ Slugify
  \/ Reslugify

SpecSlug == InitSlug /\ [][NextSlug]_vars

\* ============================================================ Listing
\* list_documentation on a directory whose *_meta.json files hold anything.
\* A created_at is a string of digits; strings compare as Python compares
\* them, character by character and then by length.

MetaPaths == 1..MaxFiles
Digits == <<"0", "1", "6">>
Ord(c) == CHOOSE i \in 1..Len(Digits) : Digits[i] = c
Stamps == {<<"0", "1">>, <<"0", "6">>, <<"1", "0">>, <<"6">>}

\* What a metadata file holds: nothing json.load accepts; a JSON value that
\* is not an object; an object whose created_at is null; an object without
\* created_at; an object with a created_at string.  "absent": no such file.
MetaKinds == {"absent", "undecodable", "non_object", "null_created_at", "no_created_at"}
MetaContents ==
  {[kind |-> k, created_at |-> <<>>] : k \in MetaKinds}
    \cup {[kind |-> "object", created_at |-> t] : t \in Stamps}

\* a < b for two strings.
RECURSIVE StrLess(_, _)
StrLess(a, b) ==
  IF b = <<>> THEN FALSE
  ELSE IF a = <<>> THEN TRUE
  ELSE IF Head(a) # Head(b) THEN Ord(Head(a)) < Ord(Head(b))
  ELSE StrLess(Tail(a), Tail(b))

\* d.get("created_at", "") of a loaded object.
CreatedAtKey(content) == IF content.kind = "no_created_at" THEN <<>> ELSE content.created_at

\* The loop over glob's paths, in glob's order: what json.load accepts is
\* appended, the rest is logged and skipped.
RECURSIVE LoadMeta(_, _)
LoadMeta(files, order) ==
  IF order = <<>> THEN <<>>
  ELSE (IF files[Head(order)].kind = "undecodable"
        THEN <<>>
        ELSE <<[path |-> Head(order), content |-> files[Head(order)]]>>)
       \o LoadMeta(files, Tail(order))

\* sorted(docs, key=..., reverse=True) raises: the key function calls .get
\* on a value that is not an object, or a key that is None is compared.
SortRaises(docs) ==
  \/ \E i \in 1..Len(docs) : docs[i].content.kind = "non_object"
  \/ Len(docs) > 1 /\ \E i \in 1..Len(docs) : docs[i].content.kind = "null_created_at"

\* sorted(..., reverse=True): descending, elements of equal key in their
\* original order.
RECURSIVE InsertDesc(_, _)
InsertDesc(sorted, doc) ==
  IF sorted = <<>> THEN <<doc>>
  ELSE IF StrLess(CreatedAtKey(Head(sorted).content), CreatedAtKey(doc.content))
       THEN <<doc>> \o sorted
       ELSE <<Head(sorted)>> \o InsertDesc(Tail(sorted), doc)

RECURSIVE SortDesc(_)
SortDesc(docs) ==
  IF docs = <<>> THEN <<>>
  ELSE InsertDesc(SortDesc(SubSeq(docs, 1, Len(docs) - 1)), docs[Len(docs)])

\* The orders in which glob can yield the files of the directory.
GlobOrders(files) ==
  LET present == {p \in MetaPaths : files[p].kind # "absent"}
  IN {o \in UNION {[1..n -> present] : n \in 0..MaxFiles} :
        /\ Len(o) = Cardinality(present)
        /\ \A i, j \in 1..Len(o) : i # j => o[i] # o[j]}

\* list_documentation()
ListRun(order) ==
  /\ listing.pc = "dir"
  /\ order \in GlobOrders(listing.files)
  /\ LET docs == LoadMeta(listing.files, order)
     IN listing' = [listing EXCEPT
          !.pc = "listed",
          !.raised = SortRaises(docs),
          !.docs = IF SortRaises(docs) THEN <<>> ELSE SortDesc(docs)]
  /\ UNCHANGED <<entries, ref, heap, callbacks, is_running, scheduler, live, remote,
                 tasks, phase, hist, api_token, file_names, disk, gens, doc_ids, sent,
                 parse, slug>>

\* The listing with any directory.
InitList ==
  /\ InitProgram
  /\ hist = InitHist
  /\ api_token = TRUE
  /\ file_names = DefaultFileNames
  /\ disk = [s \in Slugs |-> NoArtifacts]
  /\ gens = [g \in GenSlots |-> IdleGen]
  /\ doc_ids = 0
  /\ sent = NoRequest
  /\ parse = NoParse
  /\ slug = NoSlug
  /\ \E files \in [MetaPaths -> MetaContents] :
       listing = [NoListing EXCEPT !.files = files, !.pc = "dir"]

NextList == \E order \in UNION {[1..n -> MetaPaths] : n \in 0..MaxFiles} : ListRun(order)

SpecList == InitList /\ [][NextList]_vars

\* ============================================================ properties
\* check_file resumes in task t: its metadata request has ended.
FetchStep(t) == \E outcome \in Outcomes : FetchReturns(t, outcome)

\* The entry task t looked up is still the dict's, and holds the version and
\* timestamp the task passed to check_file_changed: "the stored" version and
\* timestamp of the file are the same throughout the call.
Stable(t) ==
  /\ tasks[t].pc = "fetch"
  /\ ref[tasks[t].key] = tasks[t].obj
  /\ heap[tasks[t].obj].last_version = tasks[t].kv
  /\ heap[tasks[t].obj].last_modified = tasks[t].km

\* The dict's entry of the file task t is checking.
Entry(t) == heap[ref[tasks[t].key]]

\* C1: a watched file with stored version v, a successful fetch returning a
\* non-empty version w # v: check_file's event has old_version = v and
\* new_version = w, and the entry's last_version is w after the step.
C1_VersionChangeYieldsEvent ==
  [][\A t \in Tasks :
       (/\ Stable(t)
        /\ Truthy(Entry(t).last_version)
        /\ FetchStep(t)
        /\ Truthy(tasks'[t].got)
        /\ tasks'[t].got # Entry(t).last_version)
       => /\ tasks'[t].ev # NoEvent
          /\ tasks'[t].ev.file_key = tasks[t].key
          /\ tasks'[t].ev.old_version = Entry(t).last_version
          /\ tasks'[t].ev.new_version = tasks'[t].got
          /\ heap'[ref'[tasks[t].key]].last_version = tasks'[t].got]_vars

\* A manual check has returned an event from one version to another, and the
\* entry holds the new one.
C1_Witness ==
  \E t \in Tasks :
    /\ tasks[t].kind = "check" /\ tasks[t].pc = "done"
    /\ Truthy(tasks[t].ev.old_version)
    /\ tasks[t].ev.new_version # tasks[t].ev.old_version
    /\ tasks[t].ev.new_version = tasks[t].got
    /\ ref[tasks[t].key] # NoObj
    /\ heap[ref[tasks[t].key]].last_version = tasks[t].ev.new_version

\* C2 as stated: stored version equal to the returned version, whatever the
\* returned timestamp: no event, last_version unchanged, last_checked updated.
C2_SameVersionAnyTimestamp ==
  [][\A t \in Tasks :
       (/\ Stable(t)
        /\ Truthy(Entry(t).last_version)
        /\ FetchStep(t)
        /\ tasks'[t].got = Entry(t).last_version)
       => /\ tasks'[t].ev = NoEvent
          /\ heap'[ref'[tasks[t].key]].last_version = Entry(t).last_version
          /\ heap'[ref'[tasks[t].key]].last_checked = Now]_vars

\* C2, amended: stored version equal to the returned version and a returned
\* timestamp not later than the stored one: no event, last_version unchanged,
\* last_checked updated.
C2_SameVersionNoLaterTimestamp ==
  [][\A t \in Tasks :
       (/\ Stable(t)
        /\ Truthy(Entry(t).last_version)
        /\ FetchStep(t)
        /\ tasks'[t].got = Entry(t).last_version
        /\ Entry(t).last_modified # None
        /\ remote[tasks[t].key].modified <= Entry(t).last_modified)
       => /\ tasks'[t].ev = NoEvent
          /\ heap'[ref'[tasks[t].key]].last_version = Entry(t).last_version
          /\ heap'[ref'[tasks[t].key]].last_checked = Now]_vars

\* A manual check of an unchanged file has returned None and stamped the entry.
C2_Witness ==
  \E t \in Tasks :
    /\ tasks[t].kind = "check" /\ tasks[t].pc = "done"
    /\ tasks[t].ev = NoEvent
    /\ Truthy(tasks[t].got)
    /\ ref[tasks[t].key] # NoObj
    /\ heap[ref[tasks[t].key]].last_version = tasks[t].got
    /\ heap[ref[tasks[t].key]].last_modified = remote[tasks[t].key].modified
    /\ heap[ref[tasks[t].key]].last_checked = Now

\* C3 as stated: a watched file with neither a stored version nor a stored
\* timestamp: the check always yields an event, with old_version None.
C3_BootstrapAlways ==
  [][\A t \in Tasks :
       (/\ Stable(t)
        /\ Entry(t).last_version = None
        /\ Entry(t).last_modified = None
        /\ FetchStep(t))
       => /\ tasks'[t].ev # NoEvent
          /\ tasks'[t].ev.old_version = None]_vars

\* C3, amended: ... and a fetch that succeeds with a non-empty version.
C3_BootstrapOnSuccess ==
  [][\A t \in Tasks :
       (/\ Stable(t)
        /\ Entry(t).last_version = None
        /\ Entry(t).last_modified = None
        /\ FetchStep(t)
        /\ Truthy(tasks'[t].got))
       => /\ tasks'[t].ev # NoEvent
          /\ tasks'[t].ev.file_key = tasks[t].key
          /\ tasks'[t].ev.old_version = None
          /\ tasks'[t].ev.new_version = tasks'[t].got]_vars

\* A check of a file that had nothing stored has yielded its bootstrap event.
C3_Witness ==
  \E t \in Tasks :
    /\ tasks[t].pc \in {"cb", "done"}
    /\ tasks[t].ev # NoEvent
    /\ tasks[t].ev.old_version = None
    /\ Truthy(tasks[t].ev.new_version)
    /\ ref[tasks[t].ev.file_key] # NoObj
    /\ heap[ref[tasks[t].ev.file_key]].last_version = tasks[t].ev.new_version

\* The reference rule of C4, in its precedence; "exists" is "is not None".
RefChanged(sv, st, cv, ct) ==
  CASE sv # None /\ sv # cv -> TRUE
    [] st # None /\ ct > st -> TRUE
    [] sv = None /\ st = None -> TRUE
    [] OTHER -> FALSE

\* C4: for every stored (version, timestamp) and fetched (version, timestamp)
\* the decision of check_file_changed equals the reference rule.
C4_DecisionRule ==
  hist.rule.out # "unset" =>
    (hist.rule.out = "changed") =
      RefChanged(hist.rule.sv, hist.rule.st, hist.rule.cv, hist.rule.ct)

\* Decided by the second rule: same version, a strictly greater timestamp.
C4_Witness ==
  /\ hist.rule.out = "changed"
  /\ hist.rule.sv # None /\ hist.rule.sv = hist.rule.cv
  /\ hist.rule.st # None /\ hist.rule.ct > hist.rule.st

\* check_all_files returns in task t.
PassReturns(t) ==
  /\ tasks'[t].kind = "pass" /\ tasks'[t].pc = "done"
  /\ tasks'[t] # tasks[t]

\* C5: in a check-all pass a failed request makes no event for its file and does
\* not end the pass; a pass during which no key was added or removed returns
\* after checking every watched file, with exactly the events its checks made.
C5_FailureDoesNotAbortPass ==
  /\ [](\A t \in Tasks :
          (tasks[t].kind = "pass" /\ tasks[t].pc = "error") => tasks[t].touched)
  /\ [][\A t \in Tasks :
          /\ (PassReturns(t) /\ ~tasks'[t].touched) =>
               /\ tasks'[t].checked = {k \in Keys : ref'[k] # NoObj}
               /\ tasks'[t].events = tasks'[t].made
               /\ \A i \in 1..Len(tasks'[t].events) :
                    tasks'[t].events[i].file_key \notin tasks'[t].failed
          /\ (tasks[t].kind = "pass" /\ FetchReturns(t, "fail")) =>
               /\ tasks'[t].made = tasks[t].made
               /\ tasks'[t].events = tasks[t].events
               /\ tasks'[t].failed = tasks[t].failed \cup {tasks[t].key}
               /\ tasks'[t].pc # "error" \/ tasks'[t].touched]_vars

\* A pass over two files has returned: the request for the first failed, the
\* second was still checked and its event is what the pass returns.
C5_Witness ==
  \E t \in Tasks :
    /\ tasks[t].kind = "pass" /\ tasks[t].pc = "done" /\ ~tasks[t].touched
    /\ ListKeys(entries) = <<"k1", "k2">>
    /\ tasks[t].failed = {"k1"}
    /\ Len(tasks[t].events) = 1
    /\ tasks[t].events[1].file_key = "k2"

\* The awaited callback of task t has returned or raised.
CallbackStep(t) == \E raises \in BOOLEAN : CallbackReturns(t, raises)

\* C6: on a detected change the callbacks are called once each, in the order of
\* their registration; one that raises stops neither the callbacks after it,
\* nor changes the event check_file returns, nor ends the pass.
C6_CallbacksIsolated ==
  /\ [](\A t \in Tasks : tasks[t].pc = "cb" =>
          /\ tasks[t].called = [i \in 1..tasks[t].cbi |-> i]
          /\ tasks[t].ev # NoEvent
          /\ tasks[t].ev = tasks[t].made[Len(tasks[t].made)])
  /\ [][\A t \in Tasks : CallbackStep(t) =>
          /\ tasks'[t].ev = tasks[t].ev
          /\ tasks'[t].pc # "cb" =>
               /\ tasks[t].called = [i \in 1..Len(callbacks) |-> i]
               /\ tasks'[t].called = tasks[t].called
               /\ tasks'[t].pc = "error" => tasks[t].touched
               /\ tasks[t].kind = "check" => tasks'[t].pc = "done"
               /\ tasks[t].kind = "pass" =>
                    tasks'[t].events = Append(tasks[t].events, tasks[t].ev)]_vars

\* A pass has gone on after the second of three callbacks raised: the third was
\* called, and the event is among those the pass collected.
C6_Witness ==
  \E t \in Tasks :
    /\ tasks[t].kind = "pass" /\ tasks[t].pc \in {"fetch", "done"}
    /\ tasks[t].raised # 0
    /\ tasks[t].raised < Len(tasks[t].called)
    /\ tasks[t].events # <<>>
    /\ tasks[t].events[Len(tasks[t].events)] = tasks[t].ev

\* C7: the keys get_watched_files lists are those whose last add/remove was an
\* add, each once; remove_watched_file(k) returns True exactly for those keys.
C7_RegistryNetSet ==
  LET l == ListKeys(entries) IN
  /\ {l[i] : i \in 1..Len(l)} = hist.net
  /\ Len(l) = Cardinality(hist.net)
  /\ \A k \in Keys : ref[k] # NoObj <=> k \in hist.net
  /\ \A k \in Keys : ref[k] = NoObj \/ heap[ref[k]].file_key = k
  /\ \A k \in Keys : RemoveEffect(entries, ref, k).ret <=> k \in hist.net

\* k1 has been removed after it was added, k2 is listed.
C7_Witness ==
  /\ phase = "serving"
  /\ hist.net = {"k2"}
  /\ \E i \in 1..Len(entries) : entries[i] = NoKey
  /\ ListKeys(entries) = <<"k2">>

\* C8: add_watched_file on a watched key succeeds and leaves a fresh entry, with
\* no version, timestamp or time of check and doc_generated False, so that the
\* next successful check of the key yields an event with old_version None.
C8_ReAddResets ==
  [][\A k \in Keys, n \in Names :
       (ref[k] # NoObj /\ AddWatchedFile(k, n)) =>
         /\ ref'[k] # NoObj
         /\ ref'[k] # ref[k]
         /\ heap'[ref'[k]] = NewWatchedFile(k, n)
         /\ ListKeys(entries') = ListKeys(entries)
         /\ \A outcome \in {"ok"}, t \in Tasks :
              LET w == heap'[ref'[k]]
                  res == CheckFileChanged(outcome, w.last_version, w.last_modified,
                                          remote[k])
                  c == CheckStep(tasks[t], w, res, Now, callbacks)
              IN c.event # NoEvent /\ c.event.old_version = None]_vars

\* A key was added again while a check of it was suspended: the check holds the
\* replaced entry with its version, the dict a fresh one.
C8_Witness ==
  \E t \in Tasks :
    /\ tasks[t].pc = "fetch"
    /\ hist.requests = 2
    /\ ref[tasks[t].key] \notin {NoObj, tasks[t].obj}
    /\ Truthy(heap[tasks[t].obj].last_version)
    /\ heap[ref[tasks[t].key]] = NewWatchedFile(tasks[t].key, heap[ref[tasks[t].key]].name)

\* C9: the poller is running iff the last of start() and stop() was start();
\* running, there is exactly one scheduler, stopped there is none.
C9_PollerTwoStates ==
  /\ is_running \in BOOLEAN
  /\ is_running <=> hist.lastCall \in {"start", "start again"}
  /\ scheduler # None <=> is_running
  /\ live = IF is_running THEN 1 ELSE 0

\* start() was called while the poller was running.
C9_Witness ==
  /\ hist.lastCall = "start again"
  /\ is_running
  /\ live = 1

\* An event is created in task t.
EventMade(t) == FetchStep(t) /\ tasks'[t].made # tasks[t].made

\* C10 as stated: one event for each transition of a watched file's remote
\* version: a check that finds a stored version never creates an event for the
\* remote state (timestamp) the key's last event was created for.
C10_OneEventPerTransition ==
  [][\A t \in Tasks :
       (EventMade(t) /\ tasks'[t].ev.old_version # None)
       => tasks'[t].ev.changed_at # hist.lastAt[tasks[t].key]]_vars

\* Task t is awaiting on_file_change: a regeneration that change detection
\* triggered is in progress.
Regenerating(t) ==
  /\ tasks[t].pc = "cb"
  /\ callbacks[tasks[t].cbi] = "regen"

\* C11 as stated: at any moment at most one regeneration triggered by change
\* detection is in progress, whatever the poll job, the manual check and the
\* manual check-all do.
C11_AtMostOneRegeneration ==
  Cardinality({t \in Tasks : Regenerating(t)}) <= 1

\* C12 as stated: a check-all pass that is suspended while a key is added to or
\* removed from the registry still completes without error.
C12_PassSurvivesRegistryChange ==
  \A t \in Tasks : tasks[t].kind = "pass" => tasks[t].pc # "error"


\* ------------------------------------------------------------ generator

\* generate_from_figma returns its Documentation in this step / an exception
\* leaves it in this step.
GenReturns(g) == gens[g].pc = "llm" /\ gens'[g].pc = "done"
GenFails(g) == gens'[g] # gens[g] /\ gens'[g].pc = "failed"

\* The artifact of the Documentation a returning generation made.
ArtifactOf(g) ==
  [id |-> gens'[g].id, key |-> gens[g].key, name |-> gens[g].name,
   doc_type |-> gens[g].doc_type]

\* C13: a generation never overwrites an artifact of another file key: every
\* file a step writes was absent before or held an artifact of the same key.
C13_DisjointFiles ==
  [][\A sl \in Slugs, kind \in ArtifactKinds :
       disk'[sl][kind] # disk[sl][kind]
         => disk[sl][kind].key \in {NoKey, disk'[sl][kind].key}]_vars

\* C14: whenever a generation for a watched key returns, by the endpoint or by
\* the change callback, that key's entry has doc_generated set.
C14_EveryCallerFlags ==
  [][\A g \in GenSlots :
       (GenReturns(g) /\ gens[g].key \in Watched)
         => heap'[ref[gens[g].key]].doc_generated]_vars

\* C15: when update_documentation returns, its Documentation has an id no
\* earlier Documentation and no file had, all three artifacts at its slug are
\* its own, and list_documentation has one entry for that slug, with that id.
C15_UpdateIsFreshGenerate ==
  [][\A g \in GenSlots :
       (GenReturns(g) /\ gens[g].caller = "callback")
         => LET sl == SafeName(gens[g].name)
                doc == ArtifactOf(g)
            IN /\ doc.id \notin 0..doc_ids
               /\ \A x \in Slugs, kind \in ArtifactKinds : disk[x][kind].id # doc.id
               /\ \A kind \in ArtifactKinds : disk'[sl][kind] = doc
               /\ {e \in ListDocumentation(disk') : e.slug = sl}
                    = {[slug |-> sl, id |-> doc.id, key |-> doc.key,
                        name |-> doc.name]}]_vars

\* An update has returned the second Documentation for a key whose first one
\* the endpoint had made, and the first one's metadata is gone from the list.
C15_Witness ==
  \E g \in GenSlots, sl \in Slugs :
    /\ gens[g].pc = "done" /\ gens[g].caller = "callback" /\ gens[g].id = 2
    /\ gens[g].key \in Watched
    /\ heap[ref[gens[g].key]].doc_generated
    /\ \E e \in ListDocumentation(disk) :
         /\ ListDocumentation(disk) = {e}
         /\ e.slug = sl /\ e.id = 2 /\ e.key = gens[g].key

\* C16 as stated: whenever a generation returns, whatever its formats, all
\* three artifacts at its slug are that generation's.
C16_AllThreeAnyFormats ==
  [][\A g \in GenSlots :
       GenReturns(g)
         => \A kind \in ArtifactKinds :
              disk'[SafeName(gens[g].name)][kind] = ArtifactOf(g)]_vars

\* C16 amended: whenever a generation returns whose formats were omitted,
\* empty, or both markdown and html, all three artifacts at its slug are that
\* generation's.
C16_AllThreeWhenBothFormats ==
  [][\A g \in GenSlots :
       (GenReturns(g) /\ gens[g].formats \notin {{"markdown"}, {"html"}})
         => \A kind \in ArtifactKinds :
              disk'[SafeName(gens[g].name)][kind] = ArtifactOf(g)]_vars

\* A generation has returned and the three files of one name are its own.
C16_Witness ==
  \E g \in GenSlots, sl \in Slugs :
    /\ gens[g].pc = "done"
    /\ \A kind \in ArtifactKinds :
         disk[sl][kind].id = gens[g].id /\ disk[sl][kind].key = gens[g].key

\* C17: whenever a generation fails, at whatever stage, there is no
\* Documentation, the endpoint answers 500 and no watched file's flag changes.
C17_FailurePropagates ==
  [][\A g \in GenSlots :
       GenFails(g)
         => /\ gens'[g].id = 0
            /\ gens'[g].stage \in {"validation", "fetch", "extraction",
                                   "generation", "persistence"}
            /\ gens'[g].caller = "endpoint" => gens'[g].answer = "500"
            /\ heap' = heap /\ ref' = ref]_vars

\* The endpoint's generation for a watched, unflagged key has failed while
\* saving, after it wrote a file.
C17_Witness ==
  \E g \in GenSlots :
    /\ gens[g].pc = "failed" /\ gens[g].stage = "persistence"
    /\ gens[g].caller = "endpoint" /\ gens[g].answer = "500"
    /\ gens[g].key \in Watched
    /\ ~heap[ref[gens[g].key]].doc_generated
    /\ \E sl \in Slugs, kind \in ArtifactKinds : disk[sl][kind].id = doc_ids

\* C18: no request leaves for the design tool's API with an empty file key or
\* without a token.
C18_ValidatedBeforeRequest ==
  sent # NoRequest => (sent.key # EmptyKey /\ sent.token)


\* ------------------------------------------------------------ parser

\* The numbers of the lines that start with "## ".
HeadingLines(lines) == {i \in 1..Len(lines) : StartsWith(lines[i], Heading2)}

\* C19: the parser's sections are the level-2 heading lines of the text in
\* their order: section n has order n-1, its title is the n-th heading's text
\* and its content the lines after that heading up to the next heading or the
\* end, both without the white space at their ends; lines before the first
\* heading are in no section, and without a heading there is no section.
C19_SectionPerHeading ==
  parse.pc \in {"parsed", "reparsed"} =>
    LET lines == Split(parse.text)
        H == HeadingLines(lines)
        secs == parse.sections
    IN /\ Len(secs) = Cardinality(H)
       /\ \A n \in 1..Len(secs) :
            LET i == CHOOSE h \in H : Cardinality({x \in H : x < h}) = n - 1
                later == {x \in H : x > i}
                j == IF later = {} THEN Len(lines) + 1
                     ELSE CHOOSE x \in later : \A y \in later : x <= y
            IN /\ secs[n].order = n - 1
               /\ secs[n].title = Strip(SubSeq(lines[i], 4, Len(lines[i])))
               /\ secs[n].content = Strip(Join(SubSeq(lines, i + 1, j - 1)))

\* A text with a line before its first heading was parsed into two sections,
\* the first of them with content.
C19_Witness ==
  /\ parse.pc = "parsed"
  /\ Len(parse.sections) = 2
  /\ Split(parse.text)[1] = <<"a">>
  /\ parse.sections[1].content # <<>>

\* C20: parsing "## " + title + newline + content of a section the parser made
\* yields that one section again, with order 0.
C20_ReparseReproduces ==
  parse.pc = "reparsed" =>
    parse.again = <<[parse.sections[parse.section] EXCEPT !.order = 0]>>


\* ------------------------------------------------------------ slug

\* C21: the slug of a name is the same for saving and for reading, and the
\* slug of a slug is that slug.
C21_SlugIdempotent ==
  /\ slug.pc \in {"slug", "again"} => slug.read = slug.saved
  /\ slug.pc = "again" => slug.again = slug.saved


\* ------------------------------------------------------------ retrieval

\* What get_documentation returns for a document with its own markdown.
WithOwnContent(doc) ==
  [id |-> doc.id, key |-> doc.key, name |-> doc.name, content |-> doc]

\* C22 as stated: whenever a generation returns, whatever its formats,
\* get_documentation of the returned id gives that document's metadata with
\* that generation's markdown as content.
C22_RoundTripAnyFormats ==
  [][\A g \in GenSlots :
       GenReturns(g)
         => GetDocumentation(disk', ArtifactOf(g).id) = WithOwnContent(ArtifactOf(g))]_vars

\* C22 amended: whenever a generation whose formats include markdown returns,
\* get_documentation of the returned id gives that document's metadata with
\* that generation's markdown as content; and get_documentation of an id that
\* no metadata file carries gives None.
C22_RoundTripWithMarkdown ==
  /\ [][\A g \in GenSlots :
          (GenReturns(g) /\ "markdown" \in gens[g].formats)
            => GetDocumentation(disk', ArtifactOf(g).id)
                 = WithOwnContent(ArtifactOf(g))]_vars
  /\ [](\A id \in 1..(MaxDocs + 1) :
          (\A sl \in Slugs : disk[sl]["meta"].id # id)
            => GetDocumentation(disk, id) = NoDoc)

\* The second generation has returned, its document is found with its own
\* markdown, and the first document's id is found no more.
C22_Witness ==
  \E g \in GenSlots :
    /\ gens[g].pc = "done" /\ gens[g].id = 2
    /\ GetDocumentation(disk, 2).id = 2
    /\ GetDocumentation(disk, 2).content.id = 2
    /\ GetDocumentation(disk, 1) = NoDoc


\* ------------------------------------------------------------ listing

\* C23: list_documentation never fails, returns one entry for each file that
\* json.load accepts and no other, and no entry comes before one with a
\* greater created_at string.
C23_ListSortedNeverFails ==
  listing.pc = "listed" =>
    /\ ~listing.raised
    /\ {listing.docs[i].path : i \in 1..Len(listing.docs)}
         = {p \in MetaPaths : listing.files[p].kind \notin {"absent", "undecodable"}}
    /\ \A i, j \in 1..Len(listing.docs) :
         /\ i # j => listing.docs[i].path # listing.docs[j].path
         /\ i < j => ~StrLess(CreatedAtKey(listing.docs[i].content),
                              CreatedAtKey(listing.docs[j].content))


\* ------------------------------------------------------------ frame, order

\* C24: a check_file that makes no event (the rule says unchanged, or the
\* request failed) leaves every watched entry's last_version, last_modified,
\* name and doc_generated and the set of watched keys as they were, and calls
\* no callback.
C24_NoEventFrame ==
  [][\A t \in Tasks :
       (FetchStep(t) /\ ~EventMade(t))
         => /\ entries' = entries
            /\ ref' = ref
            /\ \A k \in Keys :
                 ref[k] # NoObj
                   => /\ heap'[ref[k]].file_key = heap[ref[k]].file_key
                      /\ heap'[ref[k]].name = heap[ref[k]].name
                      /\ heap'[ref[k]].last_version = heap[ref[k]].last_version
                      /\ heap'[ref[k]].last_modified = heap[ref[k]].last_modified
                      /\ heap'[ref[k]].doc_generated = heap[ref[k]].doc_generated
            /\ tasks'[t].pc # "cb"
            /\ tasks'[t].called = tasks[t].called]_vars

\* A manual check of a file with a stored version has returned None after a
\* failed request; the entry is stamped and still holds a version.
C24_Witness ==
  \E t \in Tasks :
    /\ tasks[t].kind = "check" /\ tasks[t].pc = "done"
    /\ tasks[t].ev = NoEvent
    /\ tasks[t].got = None
    /\ ref[tasks[t].key] # NoObj
    /\ Truthy(heap[ref[tasks[t].key]].last_version)
    /\ heap[ref[tasks[t].key]].last_checked = Now


\* A pass issues the metadata request for its next file in this step: its
\* dict iterator has moved.
NextFileRequested(t) ==
  /\ tasks'[t].kind = "pass" /\ tasks'[t].pc = "fetch"
  /\ tasks'[t].it_pos # tasks[t].it_pos

\* C25: a pass issues the request for its next file only as it starts, or in
\* the step in which the previous file's check returns without an event to
\* notify, or in the step in which the last of the callbacks for the previous
\* file's event returns, all registered callbacks having been called.
C25_PassSequential ==
  [][\A t \in Tasks :
       NextFileRequested(t)
         => \/ tasks[t].pc \notin {"fetch", "cb"}
            \/ /\ tasks[t].pc = "fetch"
               /\ FetchStep(t)
               /\ (~EventMade(t) \/ callbacks = <<>>)
            \/ /\ tasks[t].pc = "cb"
               /\ CallbackStep(t)
               /\ tasks[t].called = [i \in 1..Len(callbacks) |-> i]]_vars

\* A pass is at the request for its second file after the first file's
\* event went to every callback.
C25_Witness ==
  \E t \in Tasks :
    /\ tasks[t].kind = "pass" /\ tasks[t].pc = "fetch"
    /\ Cardinality(tasks[t].checked) = 2
    /\ Len(tasks[t].made) = 1
    /\ Len(callbacks) >= 2
    /\ tasks[t].called = [i \in 1..Len(callbacks) |-> i]


\* ------------------------------------------------------------ liveness

\* The stored last_version of a key (None: not watched, or nothing stored).
Stored(k) == IF ref[k] = NoObj THEN None ELSE heap[ref[k]].last_version

\* The running poller watches k, whose remote version is w and is not the
\* stored one.
Pending(k, w) ==
  /\ phase = "serving" /\ is_running
  /\ ref[k] # NoObj
  /\ remote[k].version = w
  /\ Stored(k) # w

\* The regeneration callback is running for an event of k to version w, and
\* w is the stored version.
Delivered(k, w) ==
  /\ Stored(k) = w
  /\ \E t \in Tasks :
       /\ Regenerating(t)
       /\ tasks[t].ev.file_key = k
       /\ tasks[t].ev.new_version = w

C27_StoredBeforeCallbacksNoRetry ==
  /\ [][\A t \in Tasks :
          (EventMade(t) /\ ref[tasks[t].key] = tasks[t].obj)
            => /\ heap'[ref[tasks[t].key]].last_version = tasks'[t].ev.new_version
               /\ heap'[ref[tasks[t].key]].last_modified = tasks'[t].ev.changed_at
               /\ Len(tasks'[t].called) <= 1]_vars
  /\ [][\A t \in Tasks :
          CallbackStep(t)
            => /\ ref' = ref
               /\ \A k \in Keys :
                    ref[k] # NoObj
                      => /\ heap'[ref[k]].last_version = heap[ref[k]].last_version
                         /\ heap'[ref[k]].last_modified = heap[ref[k]].last_modified]_vars
  /\ [][\A t \in Tasks :
          (/\ FetchStep(t)
           /\ tasks[t].kv = remote[tasks[t].key].version
           /\ tasks[t].km = remote[tasks[t].key].modified)
            => ~EventMade(t)]_vars

\* After the event for the file's present remote state went to the callbacks,
\* a manual check of the file has returned None; the version is still stored.
C27_Witness ==
  \E t \in Tasks :
    /\ tasks[t].kind = "check" /\ tasks[t].pc = "done"
    /\ tasks[t].ev = NoEvent
    /\ ref[tasks[t].key] # NoObj
    /\ tasks[t].got = remote[tasks[t].key].version
    /\ heap[ref[tasks[t].key]].last_version = tasks[t].got
    /\ hist.lastAt[tasks[t].key] = remote[tasks[t].key].modified
    /\ tasks[TimerJob].pc = "done" /\ Len(tasks[TimerJob].made) = 1
    /\ tasks[TimerJob].made[1].file_key = tasks[t].key
    /\ tasks[TimerJob].made[1].new_version = tasks[t].got

\* C28: in every reachable state each entry of the registry has last_version
\* set iff last_modified is set, a set last_version is not the empty string,
\* and an entry with a set last_version has last_checked set; so every
\* suspended check_file passed check_file_changed both stored fields or neither.
C28_EntryFieldsPaired ==
  /\ \A k \in Keys : ref[k] # NoObj =>
        LET w == heap[ref[k]]
        IN /\ (w.last_version # None) <=> (w.last_modified # None)
           /\ w.last_version # EmptyVersion
           /\ w.last_version # None => w.last_checked # None
  /\ \A t \in Tasks : tasks[t].pc = "fetch" =>
        /\ (tasks[t].kv # None) <=> (tasks[t].km # None)
        /\ tasks[t].kv # EmptyVersion

\* C28's case: one entry holds a version, a timestamp and a time of check,
\* another was checked and holds neither, and a check of each is suspended.
C28_Witness ==
  /\ \E k \in Keys :
        /\ ref[k] # NoObj
        /\ heap[ref[k]].last_version \in Versions
        /\ heap[ref[k]].last_modified \in Times
        /\ heap[ref[k]].last_checked # None
        /\ \E t \in Tasks : /\ tasks[t].pc = "fetch" /\ tasks[t].key = k
                             /\ tasks[t].kv \in Versions /\ tasks[t].km \in Times
  /\ \E k \in Keys :
        /\ ref[k] # NoObj
        /\ heap[ref[k]].last_version = None
        /\ heap[ref[k]].last_modified = None
        /\ heap[ref[k]].last_checked # None

\* The entry that initialize() made for the key of task t is still the one
\* registered, it is the one the task checks, and its request ended with `how`.
InitialEntry(t, how) ==
  /\ tasks[t].pc = "fetch"
  /\ hist.init[tasks[t].key] \in how
  /\ ref[tasks[t].key] = tasks[t].obj

\* initialize() runs: no coroutine is touched, so no event is made and no
\* callback is called; an entry whose request ended as `seeded` holds the
\* remote version and timestamp, any other configured entry holds nothing.
InitializeStores(seeded) ==
  LifespanNoted =>
       /\ tasks' = tasks
       /\ \A k \in Keys : ref'[k] # NoObj =>
             IF hist'.init[k] \in seeded
             THEN /\ heap'[ref'[k]].last_version = remote[k].version
                  /\ heap'[ref'[k]].last_modified = remote[k].modified
             ELSE /\ heap'[ref'[k]].last_version = None
                  /\ heap'[ref'[k]].last_modified = None

\* No check of an entry that initialize() seeded makes an event without an old
\* version, and one that read the present remote version and timestamp as the
\* stored ones makes no event.
SeededNoBootstrap(seeded) ==
  \A t \in Tasks : (FetchStep(t) /\ InitialEntry(t, seeded)) =>
       /\ EventMade(t) => tasks'[t].ev.old_version # None
       /\ (/\ tasks[t].kv = remote[tasks[t].key].version
           /\ tasks[t].km = remote[tasks[t].key].modified) => ~EventMade(t)

\* A check of an entry that initialize() left unseeded and that holds nothing
\* yet, whose request ends in one of `good`, makes an event without an old
\* version.
UnseededBootstraps(unseeded, good) ==
  \A t \in Tasks, oc \in good :
       (/\ FetchReturns(t, oc)
        /\ InitialEntry(t, unseeded)
        /\ heap[tasks[t].obj].last_version = None
        /\ heap[tasks[t].obj].last_modified = None)
       => /\ EventMade(t)
          /\ tasks'[t].ev.old_version = None
          /\ tasks'[t].ev.new_version = remote[tasks[t].key].version

\* C29 as stated: initialize() stores without event or callback; a configured
\* file whose initial request succeeded is seeded and gives no bootstrap event
\* later; one whose initial request failed is unseeded and gives a bootstrap
\* event on its first check whose request succeeds.
C29_SeedingBySuccess ==
  /\ [][InitializeStores({"ok", "noversion"})]_vars
  /\ [][SeededNoBootstrap({"ok", "noversion"})]_vars
  /\ [][UnseededBootstraps({"fail"}, {"ok", "noversion"})]_vars

\* C29, amended: the same with "succeeded" meaning that the request returned
\* a non-empty version, for the initial request and for the first check; a
\* response without a version leaves the file as a failed request does.
C29_SeedingByVersion ==
  /\ [][InitializeStores({"ok"})]_vars
  /\ [][SeededNoBootstrap({"ok"})]_vars
  /\ [][UnseededBootstraps({"fail", "noversion"}, {"ok"})]_vars

\* C29's case: of two configured files one was seeded and one was not; a
\* check of the seeded one has returned without an event while the remote file
\* was as at startup, and a check of the other has made its bootstrap event.
C29_Witness ==
  \E k1 \in Keys, k2 \in Keys, t1 \in Tasks, t2 \in Tasks :
    /\ hist.init[k1] = "ok"
    /\ hist.init[k2] = "fail"
    /\ remote[k1].modified = 0
    /\ tasks[t1].kind = "check" /\ tasks[t1].key = k1 /\ tasks[t1].pc = "done"
    /\ tasks[t1].got = remote[k1].version /\ tasks[t1].made = <<>>
    /\ tasks[t2].key = k2 /\ tasks[t2].pc \in {"cb", "done"}
    /\ Len(tasks[t2].made) = 1
    /\ tasks[t2].made[1].file_key = k2
    /\ tasks[t2].made[1].old_version = None
    /\ heap[ref[k2]].last_version = remote[k2].version

\* ------------------------------------------------------------ regeneration

\* The generation that the change callback started returns its Documentation.
RegenReturns(g) == GenReturns(g) /\ gens[g].caller = "callback"

\* The regeneration is one of doc_type "both" in both formats, and the three
\* files of the slug of the file's present name hold it, whatever they held.
RegenWritesBoth(g) ==
  /\ gens[g].doc_type = "both"
  /\ gens[g].formats = DocFormats
  /\ \A kind \in ArtifactKinds : disk'[SafeName(gens[g].name)][kind] = ArtifactOf(g)

\* C30 as stated: a regeneration started by a change event generates with
\* doc_type "both" in both formats, and it overwrites the artifacts of the
\* documentation generated for that file before: none of them is left.
C30_RegenerationOverwritesPrevious ==
  [][\A g \in GenSlots : RegenReturns(g) =>
       /\ RegenWritesBoth(g)
       /\ \A sl \in Slugs, kind \in ArtifactKinds :
            disk[sl][kind].key = gens[g].key => disk'[sl][kind] = ArtifactOf(g)]_vars

\* C30, amended: a regeneration started by a change event generates with
\* doc_type "both" in both formats and overwrites the three files of the slug
\* of the file's present name; the files of every other slug stay as they are.
C30_RegenerationOverwritesSlug ==
  [][\A g \in GenSlots : RegenReturns(g) =>
       /\ RegenWritesBoth(g)
       /\ \A sl \in Slugs \ {SafeName(gens[g].name)} : disk'[sl] = disk[sl]]_vars

\* C30's case: a regeneration has returned and its three files hold the new
\* documentation of doc_type "both", while the documentation generated for
\* the same file before, with doc_type "user" and as HTML only, is still there
\* under the slug of the file's earlier name.
C30_Witness ==
  \E g \in GenSlots, sl \in Slugs, old \in Slugs :
    /\ old # sl
    /\ gens[g].pc = "done" /\ gens[g].caller = "callback"
    /\ \A kind \in ArtifactKinds :
         /\ disk[sl][kind].id = gens[g].id
         /\ disk[sl][kind].key = gens[g].key
         /\ disk[sl][kind].doc_type = "both"
    /\ disk[old]["meta"].key = gens[g].key
    /\ disk[old]["meta"].doc_type = "user"
    /\ disk[old]["html"] = disk[old]["meta"]
    /\ disk[old]["md"] = NoFile

====
